---- MODULE Spec2Model ----
(***************************************************************************)
(* Model of the download sequencing and progress reporting of              *)
(* SoundcloudDWN.                                                          *)
(*                                                                         *)
(* Two programs live in the repository and both are modelled here:         *)
(*   - the web back end (src/web_downloader.py): DownloadQueue, the        *)
(*     /api/download handler start_download, the per-query thread          *)
(*     download_worker and its progress_hook;                              *)
(*   - the desktop program (src/soundcloud_downloader_improved.py):        *)
(*     DownloaderThread and the EnhancedApp observer that polls the        *)
(*     shared progress_queue.                                              *)
(* The two programs share no state.  WebSpec runs the web program and      *)
(* DeskSpec the desktop program; each leaves the other's variables alone.  *)
(*                                                                         *)
(* The extraction engine (yt_dlp) is a black box: extract_info returns or  *)
(* raises, download calls the progress hook any number of times and then   *)
(* returns or raises.                                                      *)
(***************************************************************************)
EXTENDS Integers, Sequences, FiniteSets, Bags, TLC

VARIABLES
    \* ---- web_downloader.py ----
    items,          \* DownloadQueue.items: item id -> item dict
    order,          \* insertion order of the keys of items (a Python dict keeps it)
    reqs,           \* /api/download requests in flight: the queries each has still to handle
    wthreads,       \* the bag of download_worker threads that are running
    wstarted,       \* how many download_worker threads have been started so far
    created,        \* history: the ids DownloadQueue.add has assigned, in the order of the calls
    \* ---- soundcloud_downloader_improved.py ----
    btn_download,   \* EnhancedApp.btn_download.enabled
    btn_cancel,     \* EnhancedApp.btn_cancel.enabled
    stop_event,     \* EnhancedApp.stop_event, shared with every DownloaderThread
    progress_queue, \* EnhancedApp.progress_queue, shared with every DownloaderThread
    worker,         \* EnhancedApp.worker: index of the latest DownloaderThread, 0 for None
    dthreads,       \* the DownloaderThreads created so far
    obs,            \* where the Tk main thread is inside _periodic_check
    progress_value, \* EnhancedApp.progress['value']
    stale_finish,   \* history: a terminal message of a thread other than self.worker was handled
    handled,        \* history: per DownloaderThread, the kinds of its messages handled so far
    misordered      \* history: a message was handled out of the order info, progress, terminal

webVars == <<items, order, reqs, wthreads, wstarted, created>>
deskVars == <<btn_download, btn_cancel, stop_event, progress_queue, worker, dthreads, obs,
              progress_value, stale_finish, handled, misordered>>
vars == <<items, order, reqs, wthreads, wstarted, created, btn_download, btn_cancel, stop_event,
          progress_queue, worker, dthreads, obs, progress_value, stale_finish, handled,
          misordered>>

(***************************************************************************)
(* Bounds of the model.                                                    *)
(***************************************************************************)
\* download_worker threads ever started plus queries still waiting in a request
MaxWorkers == 2
\* item ids uuid4()[:8] can produce (16^8 in the program)
NumIds == 2
\* largest byte count the engine reports to a progress hook
MaxBytes == 2
\* DownloaderThreads ever created by the desktop program
MaxThreads == 2
\* progress-hook calls the desktop engine makes, all downloads together
MaxHooks == 2
\* largest total_bytes of the reports the percent computation is checked on
PctBytes == 100

(***************************************************************************)
(* Values.                                                                 *)
(***************************************************************************)
\* Python's None and a present value
None == [some |-> FALSE]
Some(v) == [some |-> TRUE, val |-> v]

Min(a, b) == IF a <= b THEN a ELSE b
Max(a, b) == IF a >= b THEN a ELSE b

\* s[:n] of a Python string, strings being sequences of characters
Truncate(s, n) == SubSeq(s, 1, Min(Len(s), n))

\* str.strip(): leading and trailing white space removed
RECURSIVE LStrip(_)
LStrip(s) == IF s # <<>> /\ Head(s) = " " THEN LStrip(Tail(s)) ELSE s
RECURSIVE RStrip(_)
RStrip(s) == IF s # <<>> /\ s[Len(s)] = " " THEN RStrip(SubSeq(s, 1, Len(s) - 1)) ELSE s
Strip(s) == RStrip(LStrip(s))

\* query[:50] and info['title'][:50]
TitleLen == 50
\* str(e)[:100]
ErrorLen == 100

\* the query strings a client posts
Queries == { <<" ">>, <<"a">>, <<" ", "b">> }
\* str(e) of the exceptions the engine raises
ErrMsgs == { <<>>, <<"e", "r", "r">> }
\* what extract_info returns: title, artist or uploader, webpage_url
InfoTitle == <<"T">>
InfoArtist == <<"A">>
InfoUrl == <<"u">>
\* the file the engine produced
OutFile == <<"f">>

(***************************************************************************)
(* int(done / total * 100) as progress_hook computes it: done / total is   *)
(* an IEEE-754 double (53-bit significand, round to nearest, ties to       *)
(* even), the product with 100 is rounded again, int() truncates.          *)
(*                                                                         *)
(* With x = RN(done/total) the product 100*x differs from 100*done/total   *)
(* by less than 2^-40 for the byte counts modelled, so when                *)
(* 100*done/total is no integer the result is its floor.  When it is an    *)
(* integer k, the result is k unless x was rounded down by so much that    *)
(* 100*x rounds to a double below k, and then it is k - 1.  Both roundings *)
(* are decided exactly with remainders modulo total.                       *)
(***************************************************************************)
RECURSIVE Pow2(_)
Pow2(n) == IF n = 0 THEN 1 ELSE 2 * Pow2(n - 1)

\* 2^n mod m
RECURSIVE Pow2Mod(_, _)
Pow2Mod(n, m) == IF n = 0 THEN 1 % m ELSE (2 * Pow2Mod(n - 1, m)) % m

\* the e with 2^e <= a/b < 2^(e+1), for a, b > 0
RECURSIVE ExpUp(_, _, _)
ExpUp(a, b, e) == IF b * Pow2(e + 1) <= a THEN ExpUp(a, b, e + 1) ELSE e
RECURSIVE ExpDown(_, _, _)
ExpDown(a, b, k) == IF a * Pow2(k) >= b THEN k ELSE ExpDown(a, b, k + 1)
FloorLog2(a, b) == IF a >= b THEN ExpUp(a, b, 0) ELSE 0 - ExpDown(a, b, 1)

\* done / total rounded to a double lies below done / total by rem / (total * 2^s),
\* s = 52 - FloorLog2(done, total); 0 when the quotient is exact or rounded up
RoundedDownBy(done, total) ==
    LET s == 52 - FloorLog2(done, total)
        r == (done * Pow2Mod(s, total)) % total
        odd == ((done * Pow2Mod(s, 2 * total)) % (2 * total)) >= total
    IN  IF 2 * r < total \/ (2 * r = total /\ ~odd) THEN r ELSE 0

IsPow2(k) == k = Pow2(FloorLog2(k, 1))

PercentExactCase(done, total) ==
    LET k == (100 * done) \div total
        e == FloorLog2(done, total)
        p == FloorLog2(k, 1)
        r == RoundedDownBy(done, total)
        \* half the gap between k and the double below it, times total * 2^(52 - e)
        half == IF IsPow2(k) THEN total * Pow2(p - e - 2) ELSE total * Pow2(p - e - 1)
    IN  IF 100 * r <= half THEN k ELSE k - 1

Percent(done, total) ==
    IF done = 0 THEN 0
    ELSE IF (100 * done) % total = 0 THEN PercentExactCase(done, total)
    ELSE (100 * done) \div total

IdSpace == 1..NumIds

(***************************************************************************)
(* web_downloader.py: DownloadQueue                                        *)
(***************************************************************************)
\* the dict DownloadQueue.add stores
NewItem(item_id, query) ==
    [id |-> item_id, query |-> query, status |-> "pending", progress |-> 0,
     title |-> Truncate(query, TitleLen), artist |-> <<>>, error |-> None,
     file_path |-> None, preview_url |-> None]

\* self.items[item_id] = {...}: a new key goes last, an existing key keeps its place
ItemsAfterAdd(its, item_id, query) ==
    [k \in DOMAIN its \cup {item_id} |-> IF k = item_id THEN NewItem(item_id, query) ELSE its[k]]
OrderAfterAdd(its, ord, item_id) ==
    IF item_id \in DOMAIN its THEN ord ELSE Append(ord, item_id)

\* a slip that stores the fields under an id that is not a key
UpdateOrInsert(its, item_id, kwargs) ==
    [k \in DOMAIN its \cup {item_id} |->
        IF k # item_id THEN its[k]
        ELSE IF item_id \in DOMAIN its
             THEN [f \in DOMAIN its[item_id] |->
                      IF f \in DOMAIN kwargs THEN kwargs[f] ELSE its[item_id][f]]
             ELSE kwargs]

\* DownloadQueue.update(item_id, **kwargs): nothing when the id is not a key
Update(its, item_id, kwargs) ==
    IF item_id \in DOMAIN its
    THEN [its EXCEPT ![item_id] =
            [f \in DOMAIN its[item_id] |->
                IF f \in DOMAIN kwargs THEN kwargs[f] ELSE its[item_id][f]]]
    ELSE its

\* DownloadQueue.get(item_id)
Get(item_id) == IF item_id \in DOMAIN items THEN Some(items[item_id]) ELSE None

\* DownloadQueue.get_all(): the values in insertion order
GetAll == [i \in 1..Len(order) |-> items[order[i]]]

\* a slip that discards only the items that are finished
ClearFinished ==
    /\ items # <<>>
    /\ items' = [k \in {id \in DOMAIN items : items[id].status \notin {"complete", "error"}}
                    |-> items[k]]
    /\ order' = SelectSeq(order, LAMBDA k : items[k].status \notin {"complete", "error"})
    /\ UNCHANGED <<reqs, wthreads, wstarted, created>>
    /\ UNCHANGED deskVars

\* DownloadQueue.clear(), called by clear_queue
Clear ==
    /\ items # <<>>
    /\ items' = <<>>
    /\ order' = <<>>
    /\ UNCHANGED <<reqs, wthreads, wstarted, created>>
    /\ UNCHANGED deskVars

(***************************************************************************)
(* web_downloader.py: start_download                                       *)
(***************************************************************************)
RECURSIVE SumLen(_)
SumLen(ss) == IF ss = <<>> THEN 0 ELSE Len(Head(ss)) + SumLen(Tail(ss))

\* the lists of queries a request may carry
Batches(n) == UNION { [1..k -> Queries] : k \in 1..n }

RemoveAt(ss, i) == SubSeq(ss, 1, i - 1) \o SubSeq(ss, i + 1, Len(ss))

\* POST /api/download with a non-empty list of queries (an empty list is answered 400
\* and changes nothing).  Flask serves each request on a thread of its own.
StartDownload(queries) ==
    /\ reqs' = Append(reqs, queries)
    /\ UNCHANGED <<items, order, wthreads, wstarted, created>>
    /\ UNCHANGED deskVars

\* one pass of the for loop of request r: strip, and for a non-blank query add the
\* item and start its worker thread; the request returns after its last query
HandleQuery(r, item_id) ==
    LET query == Strip(Head(reqs[r]))
        rest == Tail(reqs[r])
    IN  /\ IF query # <<>>
           THEN /\ items' = ItemsAfterAdd(items, item_id, query)
                /\ order' = OrderAfterAdd(items, order, item_id)
                /\ wthreads' = wthreads (+) SetToBag({[item_id |-> item_id, pc |-> "start"]})
                /\ wstarted' = wstarted + 1
                /\ created' = Append(created, item_id)
           ELSE UNCHANGED <<items, order, wthreads, wstarted, created>>
        /\ reqs' = IF rest = <<>> THEN RemoveAt(reqs, r) ELSE [reqs EXCEPT ![r] = rest]
        /\ UNCHANGED deskVars

\* The batch-complete events the web program has emitted.  start_download answers
\* {"success": True, "items": item_ids} as soon as the threads are started, before any
\* of them has run; no handler, worker or queue method emits anything when the items
\* of a request are all terminal, so the sequence stays empty.
BatchCompleteEvents == <<>>

(***************************************************************************)
(* web_downloader.py: download_worker and progress_hook                    *)
(***************************************************************************)
\* a running thread: the item id it was started with and where it is in download_worker
\* ("start": before the first update; "extract": in extract_info; "download": in
\* ydl.download).  A thread that returns leaves the bag.
Moved(t, pc) == (wthreads (-) SetToBag({t})) (+) SetToBag({[t EXCEPT !.pc = pc]})
Ended(t) == wthreads (-) SetToBag({t})

\* download_queue.update(item_id, status="searching")
WorkerStart(t) ==
    /\ t.pc = "start"
    /\ items' = Update(items, t.item_id, [status |-> "searching"])
    /\ wthreads' = Moved(t, "extract")
    /\ UNCHANGED <<order, reqs, wstarted, created>>
    /\ UNCHANGED deskVars

\* a slip that marks every item of the queue failed
ErrorUpdateAll(its, item_id, msg) ==
    [k \in DOMAIN its |->
        [f \in DOMAIN its[k] |->
            IF f = "status" THEN "error"
            ELSE IF f = "error" THEN Some(Truncate(msg, ErrorLen)) ELSE its[k][f]]]

\* a slip that swallows the exception and records nothing
ErrorUpdateNone(its, item_id, msg) == its

\* the except clause: status="error", error=str(e)[:100]
ErrorUpdate(its, item_id, msg) ==
    Update(its, item_id, [status |-> "error", error |-> Some(Truncate(msg, ErrorLen))])

\* extract_info returned: title, artist, status="downloading", preview_url
ExtractOk(t) ==
    /\ t.pc = "extract"
    /\ items' = Update(items, t.item_id,
                       [title |-> Truncate(InfoTitle, TitleLen), artist |-> InfoArtist,
                        status |-> "downloading", preview_url |-> Some(InfoUrl)])
    /\ wthreads' = Moved(t, "download")
    /\ UNCHANGED <<order, reqs, wstarted, created>>
    /\ UNCHANGED deskVars

\* extract_info raised
ExtractRaise(t, msg) ==
    /\ t.pc = "extract"
    /\ items' = ErrorUpdate(items, t.item_id, msg)
    /\ wthreads' = Ended(t)
    /\ UNCHANGED <<order, reqs, wstarted, created>>
    /\ UNCHANGED deskVars

\* a slip that reports 0 percent for an unknown total
HookDownloadingItemsZero(its, item_id, done, total) ==
    Update(its, item_id,
           [progress |-> IF total > 0 THEN Percent(done, total) ELSE 0,
            status |-> "downloading"])

\* progress_hook for d['status'] == 'downloading'
HookDownloadingItems(its, item_id, done, total) ==
    IF total > 0
    THEN Update(its, item_id, [progress |-> Percent(done, total), status |-> "downloading"])
    ELSE its

\* the engine calls the hook with downloaded_bytes = done and total_bytes (or its
\* estimate) = total, 0 standing for an unknown total
HookDownloading(t, done, total) ==
    /\ t.pc = "download"
    /\ items' = HookDownloadingItems(items, t.item_id, done, total)
    /\ UNCHANGED <<order, reqs, wthreads, wstarted, created>>
    /\ UNCHANGED deskVars

\* progress_hook for d['status'] == 'finished'
HookFinishedItems(its, item_id) ==
    Update(its, item_id, [status |-> "processing", progress |-> 95])

HookFinished(t) ==
    /\ t.pc = "download"
    /\ items' = HookFinishedItems(items, t.item_id)
    /\ UNCHANGED <<order, reqs, wthreads, wstarted, created>>
    /\ UNCHANGED deskVars

\* ydl.download returned: status="complete", progress=100, file_path if it exists
CompleteUpdate(its, item_id, exists) ==
    Update(its, item_id,
           [status |-> "complete", progress |-> 100,
            file_path |-> IF exists THEN Some(OutFile) ELSE None])

DownloadReturn(t, exists) ==
    /\ t.pc = "download"
    /\ items' = CompleteUpdate(items, t.item_id, exists)
    /\ wthreads' = Ended(t)
    /\ UNCHANGED <<order, reqs, wstarted, created>>
    /\ UNCHANGED deskVars

\* ydl.download raised
DownloadRaise(t, msg) ==
    /\ t.pc = "download"
    /\ items' = ErrorUpdate(items, t.item_id, msg)
    /\ wthreads' = Ended(t)
    /\ UNCHANGED <<order, reqs, wstarted, created>>
    /\ UNCHANGED deskVars

WebInit ==
    /\ items = <<>>
    /\ order = <<>>
    /\ reqs = <<>>
    /\ wthreads = EmptyBag
    /\ wstarted = 0
    /\ created = <<>>

DeskIdle ==
    /\ btn_download = TRUE
    /\ btn_cancel = FALSE
    /\ stop_event = FALSE
    /\ progress_queue = <<>>
    /\ worker = 0
    /\ dthreads = <<>>
    /\ obs = "idle"
    /\ progress_value = 0
    /\ stale_finish = FALSE
    /\ handled = <<>>
    /\ misordered = FALSE

Init == WebInit /\ DeskIdle

(***************************************************************************)
(* soundcloud_downloader_improved.py: DownloaderThread                     *)
(*                                                                         *)
(* dthreads[i] is the i-th DownloaderThread created.  pc is where run is:  *)
(*   "start"        started, before "Extrayendo información..." is put     *)
(*   "extract"      in ydl.extract_info                                    *)
(*   "download"     in ydl.download                                        *)
(*   "check"        at the test of line 335                                *)
(*   "put_complete" between the test of line 335 and the put of line 336   *)
(*   "except"       in run's except clause, before the test of line 204    *)
(*   "put_canceled", "put_error"  between that test and the put            *)
(*   "cleanup"      in the finally clause                                  *)
(*   "dead"         run has returned: is_alive() is False                  *)
(* hooks: progress-hook calls so far.  The custom cover (lines 255-257 and  *)
(* 332-333, _embed_custom_cover) only adds "status" messages and is left   *)
(* out: the threads modelled run without one.                              *)
(* History fields, written by no code: term, the terminal message types    *)
(* the thread has put; cancel_at, the pc at which the first cancel request *)
(* of its run found it ("none" without one); nterm, how many terminal      *)
(* messages it has put; late, it has put a "status", "info" or "progress"  *)
(* message after a terminal one.                                           *)
(***************************************************************************)
TerminalTypes == {"complete", "error", "canceled"}

Msg(type, from, percent) == [type |-> type, from |-> from, percent |-> percent]

NewThread ==
    [pc |-> "start", hooks |-> 0, term |-> {}, cancel_at |-> "none", nterm |-> 0,
     late |-> FALSE]

\* how many of the message types are terminal ones
RECURSIVE CountTerminal(_)
CountTerminal(types) ==
    IF types = <<>> THEN 0
    ELSE (IF Head(types) \in TerminalTypes THEN 1 ELSE 0) + CountTerminal(Tail(types))

\* some of the message types is no terminal one
SomeOrdinary(types) == \E k \in DOMAIN types : types[k] \notin TerminalTypes

Alive(i) == dthreads[i].pc # "dead"

\* the progress-hook calls made so far
RECURSIVE SumHooks(_)
SumHooks(ts) == IF ts = <<>> THEN 0 ELSE Head(ts).hooks + SumHooks(Tail(ts))
HooksUsed == SumHooks(dthreads)

\* self.progress_queue.put((type, payload)) by thread i, one put per type of types
RECURSIVE Puts(_, _, _)
Puts(q, i, types) ==
    IF types = <<>> THEN q ELSE Puts(Append(q, Msg(Head(types), i, None)), i, Tail(types))

ThreadStep(i, pc, types) ==
    /\ dthreads' = [dthreads EXCEPT ![i].pc = pc,
                                    ![i].term = @ \cup ({types[k] : k \in DOMAIN types}
                                                        \cap TerminalTypes),
                                    ![i].nterm = @ + CountTerminal(types),
                                    ![i].late = @ \/ (dthreads[i].nterm > 0 /\ SomeOrdinary(types))]
    /\ progress_queue' = Puts(progress_queue, i, types)
    /\ UNCHANGED <<btn_download, btn_cancel, stop_event, worker, obs, progress_value,
                   stale_finish, handled, misordered>>
    /\ UNCHANGED webVars

\* _download up to line 314: "Extrayendo información..."
Begin(i) ==
    /\ dthreads[i].pc = "start"
    /\ ThreadStep(i, "extract", <<"status">>)

\* output_dir.mkdir raises before anything is put
BeginRaise(i) ==
    /\ dthreads[i].pc = "start"
    /\ ThreadStep(i, "except", <<>>)

\* extract_info returned: the "info" message and "Iniciando descarga..."
DeskExtractOk(i) ==
    /\ dthreads[i].pc = "extract"
    /\ ThreadStep(i, "download", <<"info", "status">>)

DeskExtractRaise(i) ==
    /\ dthreads[i].pc = "extract"
    /\ ThreadStep(i, "except", <<>>)

\* _handle_download_progress: percent = min(100.0, downloaded / total * 100.0), None
\* for an unknown total.  The model keeps the integer part of the float.
DeskPercent(done, total) ==
    IF total > 0 THEN Some(Min(100, Percent(done, total))) ELSE None

\* the (downloaded_bytes, total_bytes) pairs the engine reports to the desktop hook:
\* an unknown total, half way, and more bytes than the estimated total
DeskReports == { <<1, 0>>, <<1, 2>>, <<2, 1>> }

\* _progress_hook raises DownloadError when stop_event is set; the engine lets it
\* through to run
HookCancelled(i) ==
    /\ dthreads[i].pc = "download"
    /\ HooksUsed < MaxHooks
    /\ stop_event
    /\ ThreadStep(i, "except", <<>>)

\* _progress_hook, status 'downloading'
DeskHookDownloading(i, done, total) ==
    /\ dthreads[i].pc = "download"
    /\ HooksUsed < MaxHooks
    /\ ~stop_event
    /\ dthreads' = [dthreads EXCEPT ![i].hooks = @ + 1,
                                    ![i].late = @ \/ dthreads[i].nterm > 0]
    /\ progress_queue' = Append(progress_queue, Msg("progress", i, DeskPercent(done, total)))
    /\ UNCHANGED <<btn_download, btn_cancel, stop_event, worker, obs, progress_value,
                   stale_finish, handled, misordered>>
    /\ UNCHANGED webVars

\* the messages _progress_hook puts for status 'finished' and for status 'error'
HookMessages(status) ==
    IF status = "finished" THEN <<"status", "status">> ELSE <<"error">>

DeskHookOther(i, status) ==
    /\ dthreads[i].pc = "download"
    /\ HooksUsed < MaxHooks
    /\ ~stop_event
    /\ dthreads' = [dthreads EXCEPT ![i].hooks = @ + 1,
                                    ![i].term = @ \cup ({"error"} \cap
                                        {HookMessages(status)[k] : k \in DOMAIN HookMessages(status)}),
                                    ![i].nterm = @ + CountTerminal(HookMessages(status)),
                                    ![i].late = @ \/ (dthreads[i].nterm > 0
                                                       /\ SomeOrdinary(HookMessages(status)))]
    /\ progress_queue' = Puts(progress_queue, i, HookMessages(status))
    /\ UNCHANGED <<btn_download, btn_cancel, stop_event, worker, obs, progress_value,
                   stale_finish, handled, misordered>>
    /\ UNCHANGED webVars

\* ydl.download returned: on to the test of line 335
DeskDownloadReturn(i) ==
    /\ dthreads[i].pc = "download"
    /\ ThreadStep(i, "check", <<>>)

DeskDownloadRaise(i) ==
    /\ dthreads[i].pc = "download"
    /\ ThreadStep(i, "except", <<>>)

\* line 335: if not self.stop_event.is_set()
CompleteDecision(stop) == IF stop THEN "cleanup" ELSE "put_complete"

CheckStop(i) ==
    /\ dthreads[i].pc = "check"
    /\ ThreadStep(i, CompleteDecision(stop_event), <<>>)

\* line 336
PutComplete(i) ==
    /\ dthreads[i].pc = "put_complete"
    /\ ThreadStep(i, "cleanup", <<"complete">>)

\* run, line 204: if self.stop_event.is_set()
ExceptDecision(stop) == IF stop THEN "put_canceled" ELSE "put_error"

Except(i) ==
    /\ dthreads[i].pc = "except"
    /\ ThreadStep(i, ExceptDecision(stop_event), <<>>)

\* run, line 205
PutCanceled(i) ==
    /\ dthreads[i].pc = "put_canceled"
    /\ ThreadStep(i, "cleanup", <<"canceled">>)

\* run, line 208
PutError(i) ==
    /\ dthreads[i].pc = "put_error"
    /\ ThreadStep(i, "cleanup", <<"error">>)

\* finally: _cleanup_temp_files, and run returns
Cleanup(i) ==
    /\ dthreads[i].pc = "cleanup"
    /\ dthreads' = [dthreads EXCEPT ![i].pc = "dead"]
    /\ UNCHANGED <<btn_download, btn_cancel, stop_event, progress_queue, worker, obs,
                   progress_value, stale_finish, handled, misordered>>
    /\ UNCHANGED webVars

(***************************************************************************)
(* soundcloud_downloader_improved.py: EnhancedApp, on the Tk main thread   *)
(***************************************************************************)
\* the observer state the handlers below write
ObsState == [download |-> btn_download, cancel |-> btn_cancel, value |-> progress_value,
             stale |-> stale_finish, handled |-> handled, misordered |-> misordered]

\* the kind of a message in the order of a run: the resolve result, progress, terminal
Kind(type) ==
    CASE type = "info" -> "info"
      [] type = "progress" -> "progress"
      [] type \in TerminalTypes -> "terminal"
      [] OTHER -> "status"

\* the history the observer keeps of the message it handles
Noted(st, msg) ==
    LET before == st.handled[msg.from]
        k == Kind(msg.type)
    IN  [st EXCEPT !.stale = @ \/ (msg.type \in TerminalTypes /\ msg.from # worker),
                   !.handled[msg.from] = IF k = "status" THEN @ ELSE @ \cup {k},
                   !.misordered = @ \/ (k = "progress" /\ "info" \notin before)
                                    \/ (k \in {"info", "progress"} /\ "terminal" \in before)]

\* _finish_download(success): the progress bar back to 0 unless success, the download
\* button enabled and the cancel button disabled
FinishDownload(st, success) ==
    [st EXCEPT !.download = TRUE, !.cancel = FALSE,
               !.value = IF success THEN @ ELSE 0]

\* _update_progress: the bar follows a known percent, clamped to [0, 100]
UpdateProgress(st, percent) ==
    IF percent.some THEN [st EXCEPT !.value = Max(0, Min(100, percent.val))] ELSE st

\* _handle_progress_message
HandleProgressMessage(st, msg) ==
    LET seen == Noted(st, msg)
    IN  CASE msg.type = "progress" -> UpdateProgress(seen, msg.percent)
          [] msg.type = "complete" -> FinishDownload([seen EXCEPT !.value = 100], TRUE)
          [] msg.type \in {"error", "canceled"} -> FinishDownload(seen, FALSE)
          [] OTHER -> seen

RECURSIVE HandleAll(_, _)
HandleAll(st, q) == IF q = <<>> THEN st ELSE HandleAll(HandleProgressMessage(st, Head(q)), Tail(q))

\* _on_download, reached through ModernButton._on_click only while the button is enabled
OnDownload ==
    /\ obs = "idle"
    /\ btn_download
    /\ Len(dthreads) < MaxThreads
    /\ stop_event' = FALSE
    /\ progress_value' = 0
    /\ btn_download' = FALSE
    /\ btn_cancel' = TRUE
    /\ dthreads' = Append(dthreads, NewThread)
    /\ worker' = Len(dthreads) + 1
    /\ handled' = Append(handled, {})
    /\ UNCHANGED <<progress_queue, obs, stale_finish, misordered>>
    /\ UNCHANGED webVars

\* _on_cancel with the dialog answered yes
OnCancel ==
    /\ obs = "idle"
    /\ btn_cancel
    /\ stop_event' = TRUE
    /\ dthreads' = [i \in DOMAIN dthreads |->
                      IF Alive(i) /\ dthreads[i].cancel_at = "none"
                      THEN [dthreads[i] EXCEPT !.cancel_at = dthreads[i].pc]
                      ELSE dthreads[i]]
    /\ UNCHANGED <<btn_download, btn_cancel, progress_queue, worker, obs, progress_value,
                   stale_finish, handled, misordered>>
    /\ UNCHANGED webVars

\* _periodic_check, lines 1622-1627: get_nowait until the queue is empty
PeriodicDrain ==
    /\ obs = "idle"
    /\ LET st == HandleAll(ObsState, progress_queue)
       IN  /\ btn_download' = st.download
           /\ btn_cancel' = st.cancel
           /\ progress_value' = st.value
           /\ stale_finish' = st.stale
           /\ handled' = st.handled
           /\ misordered' = st.misordered
    /\ progress_queue' = <<>>
    /\ obs' = "polled"
    /\ UNCHANGED <<stop_event, worker, dthreads>>
    /\ UNCHANGED webVars

\* a slip that leaves out the test for a worker that has ended
PeriodicAliveUnchecked ==
    /\ obs = "polled"
    /\ obs' = "idle"
    /\ UNCHANGED <<btn_download, btn_cancel, progress_value, stop_event, worker, dthreads,
                   progress_queue, stale_finish, handled, misordered>>
    /\ UNCHANGED webVars

\* _periodic_check, lines 1629-1633: a dead worker with the cancel button still enabled
PeriodicAlive ==
    /\ obs = "polled"
    /\ LET st == IF worker # 0 /\ ~Alive(worker) /\ btn_cancel
                 THEN FinishDownload(ObsState, FALSE) ELSE ObsState
       IN  /\ btn_download' = st.download
           /\ btn_cancel' = st.cancel
           /\ progress_value' = st.value
    /\ obs' = "idle"
    /\ UNCHANGED <<stop_event, worker, dthreads, progress_queue, stale_finish, handled,
                   misordered>>
    /\ UNCHANGED webVars

DeskNext ==
    \/ OnDownload
    \/ OnCancel
    \/ PeriodicDrain
    \/ PeriodicAlive
    \/ \E i \in DOMAIN dthreads : Begin(i)
    \/ \E i \in DOMAIN dthreads : BeginRaise(i)
    \/ \E i \in DOMAIN dthreads : DeskExtractOk(i)
    \/ \E i \in DOMAIN dthreads : DeskExtractRaise(i)
    \/ \E i \in DOMAIN dthreads : HookCancelled(i)
    \/ \E i \in DOMAIN dthreads : \E r \in DeskReports : DeskHookDownloading(i, r[1], r[2])
    \/ \E i \in DOMAIN dthreads : \E status \in {"finished", "error"} : DeskHookOther(i, status)
    \/ \E i \in DOMAIN dthreads : DeskDownloadReturn(i)
    \/ \E i \in DOMAIN dthreads : DeskDownloadRaise(i)
    \/ \E i \in DOMAIN dthreads : CheckStop(i)
    \/ \E i \in DOMAIN dthreads : PutComplete(i)
    \/ \E i \in DOMAIN dthreads : Except(i)
    \/ \E i \in DOMAIN dthreads : PutCanceled(i)
    \/ \E i \in DOMAIN dthreads : PutError(i)
    \/ \E i \in DOMAIN dthreads : Cleanup(i)

DeskSpec == Init /\ [][DeskNext]_vars

WebNext ==
    \/ \E n \in 1..(MaxWorkers - wstarted - SumLen(reqs)) :
          \E queries \in Batches(n) : StartDownload(queries)
    \/ \E r \in 1..Len(reqs) : \E item_id \in IdSpace : HandleQuery(r, item_id)
    \/ \E t \in BagToSet(wthreads) : WorkerStart(t)
    \/ \E t \in BagToSet(wthreads) : ExtractOk(t)
    \/ \E t \in BagToSet(wthreads) : \E msg \in ErrMsgs : ExtractRaise(t, msg)
    \/ \E t \in BagToSet(wthreads) : \E done \in 0..MaxBytes : \E total \in 0..MaxBytes :
          HookDownloading(t, done, total)
    \/ \E t \in BagToSet(wthreads) : HookFinished(t)
    \/ \E t \in BagToSet(wthreads) : \E exists \in BOOLEAN : DownloadReturn(t, exists)
    \/ \E t \in BagToSet(wthreads) : \E msg \in ErrMsgs : DownloadRaise(t, msg)
    \/ Clear

WebSpec == Init /\ [][WebNext]_vars

(***************************************************************************)
(* progress_hook on its own: one item whose worker is inside ydl.download, *)
(* the engine about to report downloaded_bytes = done of total_bytes =     *)
(* total, for every 0 <= done <= total <= PctBytes with total > 0.  The    *)
(* thread record carries the report so that the state tells the input the  *)
(* hook was called with.                                                   *)
(***************************************************************************)
\* the queue after add, update(status="searching") and the update that follows
\* extract_info
DownloadingQueue(item_id, query) ==
    Update(Update(ItemsAfterAdd(<<>>, item_id, query), item_id, [status |-> "searching"]),
           item_id,
           [title |-> Truncate(InfoTitle, TitleLen), artist |-> InfoArtist,
            status |-> "downloading", preview_url |-> Some(InfoUrl)])

HookInit ==
    /\ items = DownloadingQueue(1, <<"a">>)
    /\ order = <<1>>
    /\ reqs = <<>>
    /\ \E total \in 1..PctBytes : \E done \in 0..total :
          wthreads = SetToBag({[item_id |-> 1, pc |-> "download", done |-> done, total |-> total]})
    /\ wstarted = 1
    /\ created = <<1>>
    /\ DeskIdle

\* the engine makes the report
HookReport(t) == HookDownloading(t, t.done, t.total)

HookNext == \E t \in BagToSet(wthreads) : HookReport(t)

HookSpec == HookInit /\ [][HookNext]_vars
\* Fairness of the web program: a started thread runs, a request in flight is served,
\* and every engine call returns or raises.
WebFairness ==
    /\ \A r \in 1..MaxWorkers :
          WF_vars(\E item_id \in IdSpace : r \in 1..Len(reqs) /\ HandleQuery(r, item_id))
    /\ \A id \in IdSpace :
          /\ WF_vars(\E t \in BagToSet(wthreads) : t.item_id = id /\ WorkerStart(t))
          /\ WF_vars(\E t \in BagToSet(wthreads) :
                        /\ t.item_id = id
                        /\ \/ ExtractOk(t)
                           \/ \E msg \in ErrMsgs : ExtractRaise(t, msg))
          /\ WF_vars(\E t \in BagToSet(wthreads) :
                        /\ t.item_id = id
                        /\ \/ \E exists \in BOOLEAN : DownloadReturn(t, exists)
                           \/ \E msg \in ErrMsgs : DownloadRaise(t, msg))

WebFairSpec == WebSpec /\ WebFairness

(***************************************************************************)
(* Vocabulary of the claims.                                               *)
(***************************************************************************)
\* the item states of the specification, in the status strings of web_downloader.py
TerminalStatus == {"complete", "error", "canceled"}
ActiveStatus == {"searching", "downloading", "processing"}
DownloadingStatus == {"downloading", "processing"}

\* a download_worker thread for this item id has been started
WorkerStarted(id) ==
    \/ \E t \in BagToSet(wthreads) : t.item_id = id
    \/ items[id].status # "pending"

AliveThreads == {i \in DOMAIN dthreads : Alive(i)}

(***************************************************************************)
(* C1 - C10                                                                *)
(***************************************************************************)
\* C1: FIFO processing.  For items i before j in submission order, item i has reached
\* a terminal status (complete, error, canceled) by the time the worker of item j is
\* started.
C1_FifoProcessing ==
    \A i \in 1..Len(order) : \A j \in 1..Len(order) :
        (i < j /\ WorkerStarted(order[j])) => items[order[i]].status \in TerminalStatus

\* C2: at most one active item.  In every reachable state of the web queue at most
\* one item is Resolving ("searching") or Downloading ("downloading", "processing").
C2_AtMostOneActiveItem ==
    Cardinality({id \in DOMAIN items : items[id].status \in ActiveStatus}) <= 1

\* C3: at most one worker alive (desktop).  After any sequence of download clicks,
\* cancel clicks, worker messages and periodic checks at most one DownloaderThread
\* is alive.
C3_AtMostOneWorkerAlive == Cardinality(AliveThreads) <= 1

\* C4: terminal finality.  Once an item's status is complete, error or canceled, no
\* step of a worker, of a progress hook or of add changes its status or its progress
\* (clear removes the item).
C4_TerminalFinality ==
    [][\A id \in DOMAIN items :
          (items[id].status \in TerminalStatus /\ id \in DOMAIN items')
              => /\ items'[id].status = items[id].status
                 /\ items'[id].progress = items[id].progress]_vars

\* C5: progress bound.  In every reachable state every item's progress is an integer
\* in [0, 100], whatever (downloaded, total) the engine reports.
C5_ProgressBound == \A id \in DOMAIN items : items[id].progress \in 0..100

\* C6: monotonic progress.  While an item is Downloading, the progress values the
\* worker writes never decrease.  Stated for the writes that do not depend on the
\* engine's byte counts, the 'finished' callback and completion, from a progress
\* within [0, 100]: the value written is not below the value it replaces.
C6_MonotonicProgress ==
    [][\A id \in DOMAIN items :
          (/\ items[id].status \in DownloadingStatus
           /\ items[id].progress \in 0..100
           /\ id \in DOMAIN items'
           /\ items'[id].status \in {"processing", "complete"})
              => items'[id].progress >= items[id].progress]_vars

\* C7: cancel never completes.  Once stop_event has been set by a cancel request during
\* a worker's run, that worker puts no 'complete' message.
C7_CancelNeverCompletes ==
    [][\A i \in DOMAIN dthreads :
          dthreads[i].cancel_at # "none"
              => ("complete" \in dthreads'[i].term => "complete" \in dthreads[i].term)]_vars

\* C8: cancel is eventually reported.  A worker whose cancellation was requested while
\* it was resolving (in extract_info) or downloading (in ydl.download) has put
\* 'canceled' by the time it ends, whether the engine call was aborted in a progress
\* callback, raised, or returned normally.
C8_CancelReported ==
    \A i \in DOMAIN dthreads :
        (dthreads[i].pc = "dead" /\ dthreads[i].cancel_at \in {"extract", "download"})
            => "canceled" \in dthreads[i].term

\* C9: cancel on pending items.  A download that was still pending (its worker had
\* not begun resolving) when cancel was requested never enters Resolving afterwards.
C9_CancelledPendingNeverResolves ==
    \A i \in DOMAIN dthreads : dthreads[i].cancel_at = "start" => dthreads[i].pc # "extract"

\* C10: failure containment.  A resolve or fetch failure of one worker sets its own
\* item to error, changes no field of any other item and no other worker; and every
\* item is still processed to a terminal state (or removed by clear).
C10_FailureFrame ==
    \A t \in BagToSet(wthreads) : \A msg \in ErrMsgs :
        (ExtractRaise(t, msg) \/ DownloadRaise(t, msg))
            => /\ DOMAIN items' = DOMAIN items
               /\ \A id \in DOMAIN items \ {t.item_id} : items'[id] = items[id]
               /\ t.item_id \in DOMAIN items =>
                     /\ items'[t.item_id].status = "error"
                     /\ \A f \in DOMAIN items[t.item_id] \ {"status", "error"} :
                           items'[t.item_id][f] = items[t.item_id][f]
               /\ wthreads' = wthreads (-) SetToBag({t})
               /\ order' = order

C10_FailureContainment ==
    /\ [][C10_FailureFrame]_vars
    /\ \A id \in IdSpace :
          (id \in DOMAIN items) ~> (id \notin DOMAIN items \/ items[id].status \in TerminalStatus)

\* C10 witness: one item of a batch has failed and another has completed
C10_Witness ==
    \E a \in DOMAIN items : \E b \in DOMAIN items :
        /\ items[a].status = "error"
        /\ items[b].status = "complete"
        /\ wthreads = EmptyBag

(***************************************************************************)
(* C11 - C20                                                               *)
(***************************************************************************)
\* every request has been served and every worker has returned
WebQuiet == reqs = <<>> /\ wthreads = EmptyBag

\* C11: batch completion.  When every item of the submitted batch has reached a
\* terminal state, exactly one batch-complete event has been emitted, its
\* completedCount is the number of items with status complete and its totalCount the
\* number of items submitted.
C11_BatchCompletion ==
    (/\ WebQuiet
     /\ created # <<>>
     /\ DOMAIN items = {created[i] : i \in 1..Len(created)}
     /\ \A id \in DOMAIN items : items[id].status \in TerminalStatus)
        => /\ Len(BatchCompleteEvents) = 1
           /\ BatchCompleteEvents[1].completedCount =
                  Cardinality({id \in DOMAIN items : items[id].status = "complete"})
           /\ BatchCompleteEvents[1].totalCount = Len(created)

\* C12: error message present.  In every reachable state every item whose status is
\* error or canceled carries a non-empty error message.
C12_ErrorMessagePresent ==
    \A id \in DOMAIN items :
        items[id].status \in {"error", "canceled"}
            => (items[id].error.some /\ items[id].error.val # <<>>)

\* the item the specification expects add to create for a query
PendingItem(item_id, query) ==
    [id |-> item_id, query |-> query, status |-> "pending", progress |-> 0,
     title |-> Truncate(query, TitleLen), artist |-> <<>>, error |-> None,
     file_path |-> None, preview_url |-> None]

\* C13: add order.  Handling one query of a submission appends exactly one new pending
\* item (progress 0, no error, no file path, no preview URL) to the tail of what get_all
\* returns when the query is not blank, and changes nothing when it is blank.
C13_AddOrder ==
    [][\A r \in 1..Len(reqs) : \A item_id \in IdSpace :
          HandleQuery(r, item_id)
              => IF Strip(Head(reqs[r])) # <<>>
                 THEN GetAll' = Append(GetAll, PendingItem(item_id, Strip(Head(reqs[r]))))
                 ELSE GetAll' = GetAll]_vars

\* C14: id uniqueness.  The ids add has assigned during the life of the queue, items
\* removed by clear included, are pairwise different.
C14_IdUniqueness ==
    \A i \in 1..Len(created) : \A j \in 1..Len(created) :
        i # j => created[i] # created[j]

\* C15: clear discards everything.  Immediately after clear() get_all returns no item
\* and get(id) finds nothing for any id, whatever the states of the items were.
C15_ClearDiscards ==
    [][Clear => (GetAll' = <<>> /\ \A id \in IdSpace : Get(id)' = None)]_vars

\* C15 witness: the queue has been cleared while the worker of one of its items was
\* inside the engine's download
C15_Witness ==
    /\ items = <<>>
    /\ created # <<>>
    /\ \E t \in BagToSet(wthreads) : t.pc = "download"

\* the item state of the specification a status string stands for
SpecState(status) ==
    CASE status = "pending" -> "Pending"
      [] status = "searching" -> "Resolving"
      [] status \in {"downloading", "processing"} -> "Downloading"
      [] status = "complete" -> "Complete"
      [] status = "error" -> "Error"
      [] status = "canceled" -> "Canceled"
      [] OTHER -> "Unknown"

\* the status changes the specification's state machine allows
AllowedTransitions ==
    { <<"Pending", "Resolving">>, <<"Resolving", "Downloading">>,
      <<"Downloading", "Downloading">>, <<"Downloading", "Complete">>,
      <<"Resolving", "Error">>, <<"Downloading", "Error">>,
      <<"Pending", "Canceled">>, <<"Resolving", "Canceled">>, <<"Downloading", "Canceled">> }

\* C16: status domain and transitions.  Every item's status is always one of Pending,
\* Resolving, Downloading, Complete, Error, Canceled, and every change of an item's
\* status is one of the transitions of the state machine.
C16_StatusTransitions ==
    /\ [](\A id \in DOMAIN items : SpecState(items[id].status) # "Unknown")
    /\ [][\A id \in DOMAIN items \cap DOMAIN items' :
              items'[id].status # items[id].status
                  => <<SpecState(items[id].status), SpecState(items'[id].status)>>
                         \in AllowedTransitions]_vars

\* C17: preview URL absence.  In every reachable state an item whose status is pending,
\* error or canceled has no preview URL, also when its fetch failed after resolution
\* had succeeded.
C17_PreviewUrlAbsent ==
    \A id \in DOMAIN items :
        items[id].status \in {"pending", "error", "canceled"} => items[id].preview_url = None

\* C18: file path only on Complete.  In every reachable state an item with a file path
\* has status complete.
C18_FilePathOnlyOnComplete ==
    \A id \in DOMAIN items : items[id].file_path # None => items[id].status = "complete"

\* C19: Complete implies file path.  In every reachable state an item with status
\* complete has a file path.
C19_CompleteHasFilePath ==
    \A id \in DOMAIN items : items[id].status = "complete" => items[id].file_path # None

\* C20: query immutability.  No step that keeps an item in the queue (anything short of
\* clear) changes the item's id or its query.
C20_QueryImmutable ==
    [][\A id \in DOMAIN items \cap DOMAIN items' :
          /\ items'[id].id = items[id].id
          /\ items'[id].query = items[id].query]_vars

\* C21: cancellation checkpoint before fetch.  A worker whose cancellation was requested
\* before it started the fetch (before or during resolution) never starts the engine's
\* download, and once it has ended it has reported canceled and nothing else.
C21_CheckpointBeforeFetch ==
    \A i \in DOMAIN dthreads :
        dthreads[i].cancel_at \in {"start", "extract"}
            => /\ dthreads[i].pc # "download"
               /\ dthreads[i].pc = "dead" => dthreads[i].term = {"canceled"}

\* C22: per-item event order.  The observer handles the messages of one run in the
\* order the worker put them (it takes them from the head of the queue): 'info' before
\* every 'progress' of the run, and the terminal message after its last 'progress'.
C22_EventOrder == ~misordered

\* C27: at most one terminal event per run.  A DownloaderThread puts at most one message
\* among 'complete', 'error' and 'canceled', and no 'progress', 'info' or 'status'
\* message after it.
C27_OneTerminalEvent ==
    \A i \in DOMAIN dthreads : dthreads[i].nterm <= 1 /\ ~dthreads[i].late

\* C28: terminal events belong to the current run.  Every terminal message the observer
\* handles was put by the most recently started worker.
C28_TerminalOfCurrentRun == ~stale_finish

\* C29: cancellation is not lost.  stop_event is never cleared while a worker for which
\* cancellation was requested is still alive.
C29_CancelNotLost ==
    [][(stop_event /\ ~stop_event')
          => \A i \in DOMAIN dthreads : ~(Alive(i) /\ dthreads[i].cancel_at # "none")]_vars

\* the idle controls: download enabled, cancel disabled
IdleControls == btn_download /\ ~btn_cancel

\* C30: observer returns to idle.  Once the worker of the current download has ended,
\* whether it put complete, error, canceled or no terminal message at all, the observer
\* restores the idle controls, as long as the periodic check keeps running.  In the form
\* a finite run refutes: every _periodic_check that ends while that worker is dead
\* leaves the controls idle, and the controls are never in a half-way state (so no new
\* download starts before they are idle).  _periodic_check re-arms itself with
\* root.after(200, ...), so such a check comes.
C30_ObserverReturnsToIdle ==
    /\ [](btn_download <=> ~btn_cancel)
    /\ [][(obs = "polled" /\ obs' = "idle" /\ worker # 0 /\ dthreads[worker].pc = "dead")
              => IdleControls']_vars

\* C30 witness: a worker that ended without any terminal message, and the controls idle
C30_Witness ==
    /\ worker # 0
    /\ dthreads[worker].pc = "dead"
    /\ dthreads[worker].nterm = 0
    /\ progress_queue = <<>>
    /\ IdleControls

\* C23: unknown total leaves progress unchanged.  A progress callback whose total is
\* not greater than 0 changes no field of any item.
C23_UnknownTotalNoChange ==
    [][\A t \in BagToSet(wthreads) : \A done \in 0..MaxBytes : \A total \in 0..MaxBytes :
          (total <= 0 /\ HookDownloading(t, done, total)) => items' = items]_vars

\* C23 witness: an item half way through its download, its worker inside the engine,
\* where a report with an unknown total can arrive
C23_Witness ==
    \E t \in BagToSet(wthreads) :
        /\ t.pc = "download"
        /\ t.item_id \in DOMAIN items
        /\ items[t.item_id].status = "downloading"
        /\ items[t.item_id].progress = 50

\* C24: percent computation.  For 0 <= downloaded <= total and total > 0 a progress
\* callback sets the item's progress to floor(100 * downloaded / total), exactly.
C24_PercentIsFloor ==
    [][\A t \in BagToSet(wthreads) :
          HookReport(t) => items'[t.item_id].progress = (100 * t.done) \div t.total]_vars

\* C25: no resurrection after clear.  A step that is no add never creates an item: an
\* update for an id that is not in the queue does nothing, and a queue that is empty
\* stays empty until the next add.
C25_NoResurrection ==
    [][created' = created
          => /\ DOMAIN items' \subseteq DOMAIN items
             /\ items = <<>> => items' = <<>>]_vars

\* C25 witness: the queue is empty after a clear while a worker is still in extract_info
\* and has all its later updates to make
C25_Witness ==
    /\ items = <<>>
    /\ reqs = <<>>
    /\ \E t \in BagToSet(wthreads) : t.pc = "extract"

====
